---- MODULE Spec2Model ----
(***************************************************************************)
(* Model of the video-assembly pipeline of src/video/video_generator.py:  *)
(* the timeline builder (_create_segment_list), the per-segment clip      *)
(* rendering and manifest writing (_create_concat_file,                   *)
(* _create_segment_video), the final concatenate/mux step (_render_video) *)
(* and cleanup_temp_files, over a working directory that persists across  *)
(* runs.  Durations are counted in whole time units.                      *)
(***************************************************************************)
EXTENDS Integers, Sequences, FiniteSets, TLC

\* ------------------------------------------------------------------ bounds
MaxLines == 2      \* longest script, in lines
MaxEst == 1        \* largest estimated_duration_sec of a line
MaxPause == 1      \* the pause_after_sec of a line followed by a pause
MaxAudio == 3      \* longest input audio track
MaxRuns == 2       \* generate_video calls on one working directory

\* ------------------------------------------------------------- input sets
Speakers == {"chatgpt", "gemini", "claude"}
Texts == {"Hello", "Hi back"}
StderrTexts == {"invalid data found"}
DefaultSpeaker == "chatgpt"

\* A DebateLine: speaker, text, estimated duration and pause (non-negative);
\* a line is followed by no pause or by a pause of MaxPause.
Lines ==
  [speaker : Speakers, text : Texts,
   estimated_duration_sec : 0..MaxEst, pause_after_sec : {0, MaxPause}]

\* Every sequence over S of length at most n.
SeqUpTo(S, n) == UNION {[1..k -> S] : k \in 0..n}

\* A DebateScript's lines: an ordered sequence of DebateLine.
Scripts == SeqUpTo(Lines, MaxLines)

\* The character configurations: an insertion-ordered dict keyed by speaker,
\* modelled by the sequence of its keys (distinct).
CharacterConfigs ==
  {c \in SeqUpTo(Speakers, Cardinality(Speakers)) :
     \A a, b \in DOMAIN c : a # b => c[a] # c[b]}

\* ------------------------------------------------------------- avatars
\* output_dir / f"avatar_{speaker}.png"
AvatarPath(speaker) == <<"avatars", "avatar_", speaker, ".png">>

\* generate_all_avatars: one entry per character, in the characters' order.
GenerateAllAvatars(chars) ==
  [k \in DOMAIN chars |-> [speaker |-> chars[k], path |-> AvatarPath(chars[k])]]

\* The avatars mappings the timeline builder is exercised with.
AvatarMaps == {GenerateAllAvatars(c) : c \in CharacterConfigs}

\* dict: key in d
DictHas(d, key) == \E k \in DOMAIN d : d[k].speaker = key

\* dict: d[key], for a key that is present
DictAt(d, key) == d[CHOOSE k \in DOMAIN d : d[k].speaker = key].path

\* dict.get(key, default)
DictGet(d, key, default) == IF DictHas(d, key) THEN DictAt(d, key) ELSE default

\* The outcome of evaluating an expression: a value or a raised exception.
Value(v) == [raised |-> FALSE, value |-> v]
Raise(kind) == [raised |-> TRUE, kind |-> kind]

\* A planted fault: the last-inserted entry instead of the first.
FirstValue_last(avatars) ==
  IF Len(avatars) = 0 THEN Raise("IndexError")
  ELSE Value(avatars[Len(avatars)].path)

\* list(avatars.values())[0]: the first-inserted entry; IndexError when empty.
FirstValue(avatars) ==
  IF Len(avatars) = 0 THEN Raise("IndexError") ELSE Value(avatars[1].path)

\* avatars.get(speaker, avatars.get("chatgpt", list(avatars.values())[0])):
\* Python evaluates the innermost default first, on every call.
ResolveAvatar(avatars, speaker) ==
  LET first == FirstValue(avatars)
  IN IF first.raised THEN first
     ELSE Value(DictGet(avatars, speaker,
                        DictGet(avatars, DefaultSpeaker, first.value)))

\* ------------------------------------------------------ timeline builder
\* duration = line.estimated_duration_sec + line.pause_after_sec
LineDuration(line) == line.estimated_duration_sec + line.pause_after_sec

\* current_time += duration
Advance(current_time, duration) == current_time + duration

\* A planted fault: the running time is advanced before the segment is built.
MakeSegment_late(line, avatar_path, current_time, duration) ==
  [speaker |-> line.speaker, avatar |-> avatar_path,
   start |-> current_time + duration, duration |-> duration, text |-> line.text]

\* A planted fault: the segment's text is left empty.
MakeSegment_notext(line, avatar_path, current_time, duration) ==
  [speaker |-> line.speaker, avatar |-> avatar_path, start |-> current_time,
   duration |-> duration, text |-> ""]

\* The dict appended for one line.
MakeSegment(line, avatar_path, current_time, duration) ==
  [speaker |-> line.speaker, avatar |-> avatar_path, start |-> current_time,
   duration |-> duration, text |-> line.text]

\* The loop of _create_segment_list from line k on, with the segments built
\* so far and the running time; the first exception ends it.
RECURSIVE SegmentLoop(_, _, _, _, _)
SegmentLoop(lines, avatars, k, segs, current_time) ==
  IF k > Len(lines) THEN Value(segs)
  ELSE LET line == lines[k]
           duration == LineDuration(line)
           avatar == ResolveAvatar(avatars, line.speaker)
       IN IF avatar.raised THEN avatar
          ELSE SegmentLoop(lines, avatars, k + 1,
                 Append(segs, MakeSegment(line, avatar.value, current_time, duration)),
                 Advance(current_time, duration))

\* _create_segment_list(script, avatars)
CreateSegmentList(lines, avatars) == SegmentLoop(lines, avatars, 1, <<>>, 0)

\* ------------------------------------------------------------ file names
WorkDir == <<"work">>
Cwd == <<"/cwd">>

\* The decimal digits of a natural number, most significant first.
RECURSIVE Digits(_)
Digits(n) == IF n < 10 THEN <<n>> ELSE Append(Digits(n \div 10), n % 10)

\* Left-pad a digit sequence with zeros to at least the given width.
RECURSIVE ZeroPad(_, _)
ZeroPad(ds, width) == IF Len(ds) >= width THEN ds ELSE ZeroPad(<<0>> \o ds, width)

\* self.work_dir / f"segment_{i:04d}.mp4"
SegVideo(i) == WorkDir \o <<"segment_", ZeroPad(Digits(i), 4), ".mp4">>

\* self.work_dir / "concat_list.txt"
ConcatPath == WorkDir \o <<"concat_list.txt">>

\* Path.absolute(): the working directory is given relative to the cwd.
Absolute(path) == Cwd \o path

\* One line of the concat file: f"file '{seg_video.absolute()}'\n"
ManifestLine(seg_video) == [directive |-> "file", path |-> Absolute(seg_video)]

\* self.work_dir.glob("segment_*.mp4") on one file of the working directory
GlobSegment(path) ==
  /\ Len(path) = Len(WorkDir) + 3
  /\ path[Len(WorkDir) + 1] = "segment_"
  /\ path[Len(path)] = ".mp4"

\* str.upper() on the speaker identities
Upper(s) ==
  CASE s = "chatgpt" -> "CHATGPT"
    [] s = "gemini" -> "GEMINI"
    [] s = "claude" -> "CLAUDE"
    [] OTHER -> s

\* ---------------------------------------------------------------- state
VARIABLES
  characters,      \* self.characters: the keys, in insertion order
  avatarFiles,     \* the speakers whose avatar image exists under avatars/
  clipFiles,       \* segment clip files: index -> clip, for the files present
  manifest,        \* concat_list.txt: whether it exists, and its lines
  outputFile,      \* the final video: whether it exists, and its content
  pc,              \* where generate_video stands: idle | concat | render
  script,          \* the script of the current call
  audio,           \* the duration of the current call's audio track
  avatars,         \* the avatars mapping of the current call
  segments,        \* the segment list built by the current call
  idx,             \* the loop index i of _create_concat_file
  segment_videos,  \* the list segment_videos of _create_concat_file
  log,             \* what the current call has done so far, in order
  outcome,         \* none | running | returned | raised
  err,             \* the exception raised to the caller, when outcome = raised
  runs,            \* generate_video calls so far
  removed          \* the files the last cleanup_temp_files call unlinked

vars == <<characters, avatarFiles, clipFiles, manifest, outputFile, pc, script,
          audio, avatars, segments, idx, segment_videos, log, outcome, err,
          runs, removed>>

\* A path at which no file exists.
NoManifest == [exists |-> FALSE, lines |-> <<>>]
NoOutput == [exists |-> FALSE, duration |-> 0, complete |-> FALSE]
NoError == [kind |-> "none", message |-> <<>>, stderr |-> ""]
NoClips == [i \in {} |-> {}]

\* An entry of the log of one call.
Event(ev, seg, exit) == [ev |-> ev, seg |-> seg, exit |-> exit]

\* ----------------------------------------- the timeline builder on its own
\* The builder called directly on a script and an avatars mapping.
TimelineInit ==
  /\ script \in Scripts
  /\ avatars \in AvatarMaps
  /\ characters = <<>>
  /\ avatarFiles = {}
  /\ clipFiles = NoClips
  /\ manifest = NoManifest
  /\ outputFile = NoOutput
  /\ pc = "timeline"
  /\ audio = 0
  /\ segments = <<>>
  /\ idx = 0
  /\ segment_videos = <<>>
  /\ log = <<>>
  /\ outcome = "running"
  /\ err = NoError
  /\ runs = 0
  /\ removed = {}

\* The exception object of a failed timeline build.
BuildError(kind) ==
  [kind |-> kind, message |-> <<"list index out of range">>, stderr |-> ""]

BuildTimeline ==
  /\ pc = "timeline"
  /\ outcome = "running"
  /\ LET r == CreateSegmentList(script, avatars)
     IN /\ segments' = IF r.raised THEN <<>> ELSE r.value
        /\ outcome' = IF r.raised THEN "raised" ELSE "returned"
        /\ err' = IF r.raised THEN BuildError(r.kind) ELSE NoError
  /\ UNCHANGED <<characters, avatarFiles, clipFiles, manifest, outputFile, pc,
                 script, audio, avatars, idx, segment_videos, log, runs, removed>>

TimelineNext == BuildTimeline

SpecTimeline == TimelineInit /\ [][TimelineNext]_vars

\* ------------------------------------------------------------ the pipeline
\* The scripts, audio tracks and character configurations of the runs.
RunLines ==
  {[speaker |-> "gemini", text |-> "Hello",
    estimated_duration_sec |-> MaxEst, pause_after_sec |-> MaxPause],
   [speaker |-> "claude", text |-> "Hi back",
    estimated_duration_sec |-> MaxEst, pause_after_sec |-> 0]}
RunScripts == SeqUpTo(RunLines, MaxLines)
AudioDurations == {1, MaxAudio}
RunCharacters == {<<>>, <<"gemini", "claude">>, <<"chatgpt", "gemini">>}

\* VideoGenerator(work_dir, characters): an empty working directory.
Init ==
  /\ characters \in RunCharacters
  /\ avatarFiles = {}
  /\ clipFiles = NoClips
  /\ manifest = NoManifest
  /\ outputFile = NoOutput
  /\ pc = "idle"
  /\ script = <<>>
  /\ audio = 0
  /\ avatars = <<>>
  /\ segments = <<>>
  /\ idx = 0
  /\ segment_videos = <<>>
  /\ log = <<>>
  /\ outcome = "none"
  /\ err = NoError
  /\ runs = 0
  /\ removed = {}

Min(a, b) == IF a <= b THEN a ELSE b

\* generate_video, steps 1 and 2: every avatar image is (re)generated, then
\* the segment list is built; an exception of the builder ends the call.
GenerateVideo(s, a) ==
  /\ pc = "idle"
  /\ runs < MaxRuns
  /\ runs' = runs + 1
  /\ script' = s
  /\ audio' = a
  /\ avatars' = GenerateAllAvatars(characters)
  /\ avatarFiles' = avatarFiles \cup {characters[k] : k \in DOMAIN characters}
  /\ idx' = 0
  /\ segment_videos' = <<>>
  /\ LET r == CreateSegmentList(s, avatars')
     IN IF r.raised
        THEN /\ segments' = <<>>
             /\ log' = <<Event("avatars", -1, 0)>>
             /\ outcome' = "raised"
             /\ err' = BuildError(r.kind)
             /\ pc' = "idle"
        ELSE /\ segments' = r.value
             /\ log' = <<Event("avatars", -1, 0), Event("timeline", -1, 0)>>
             /\ outcome' = "running"
             /\ err' = NoError
             /\ pc' = "concat"
  /\ UNCHANGED <<characters, clipFiles, manifest, outputFile, removed>>

\* The clip a successful tool invocation writes for a segment: the avatar
\* image held for the duration, with the upper-cased speaker as its label.
RenderedClip(seg) ==
  [avatar |-> seg.avatar, duration |-> seg.duration,
   label |-> Upper(seg.speaker), complete |-> TRUE]

\* What a failed tool invocation may leave at the output path of a segment:
\* nothing, or a truncated clip with no playable frame.
PartialClips(seg) ==
  {[avatar |-> seg.avatar, duration |-> 0, label |-> Upper(seg.speaker),
    complete |-> FALSE]}

\* subprocess.CalledProcessError as _create_segment_video re-raises it: its
\* message names the command and the exit status; stderr is an attribute.
SegmentToolError(code, stderr) ==
  [kind |-> "CalledProcessError",
   message |-> <<"Command ", "ffmpeg", " returned non-zero exit status ", code>>,
   stderr |-> stderr]

\* RuntimeError(f"Failed to render video: {e.stderr}") of _render_video
RenderToolError(code, stderr) ==
  [kind |-> "RuntimeError",
   message |-> <<"Failed to render video: ", stderr>>,
   stderr |-> stderr]

\* A planted fault: an existing clip file is rendered again and overwritten.
ConcatSkip_rerender ==
  /\ pc = "concat"
  /\ idx < Len(segments)
  /\ idx \in DOMAIN clipFiles
  /\ segment_videos' = Append(segment_videos, SegVideo(idx))
  /\ clipFiles' = [clipFiles EXCEPT ![idx] = RenderedClip(segments[idx + 1])]
  /\ log' = Append(log, Event("segment", idx, 0))
  /\ idx' = idx + 1
  /\ UNCHANGED <<characters, avatarFiles, manifest, outputFile, pc, script,
                 audio, avatars, segments, outcome, err, runs, removed>>

\* _create_concat_file, one loop iteration whose clip file already exists:
\* the path is listed and the rendering skipped.
ConcatSkip ==
  /\ pc = "concat"
  /\ idx < Len(segments)
  /\ idx \in DOMAIN clipFiles
  /\ segment_videos' = Append(segment_videos, SegVideo(idx))
  /\ log' = Append(log, Event("skip", idx, 0))
  /\ idx' = idx + 1
  /\ UNCHANGED <<characters, avatarFiles, clipFiles, manifest, outputFile, pc,
                 script, audio, avatars, segments, outcome, err, runs, removed>>

\* One loop iteration whose tool invocation exits with code 0.
ConcatRenderOk ==
  /\ pc = "concat"
  /\ idx < Len(segments)
  /\ idx \notin DOMAIN clipFiles
  /\ segment_videos' = Append(segment_videos, SegVideo(idx))
  /\ clipFiles' = (idx :> RenderedClip(segments[idx + 1])) @@ clipFiles
  /\ log' = Append(log, Event("segment", idx, 0))
  /\ idx' = idx + 1
  /\ UNCHANGED <<characters, avatarFiles, manifest, outputFile, pc, script,
                 audio, avatars, segments, outcome, err, runs, removed>>

\* A planted fault: the error of the tool is logged and the loop goes on.
SegmentFailure_swallowed(code, stderr, left) ==
  /\ clipFiles' = [i \in DOMAIN clipFiles \cup {idx : c \in left} |->
                     IF i = idx THEN CHOOSE c \in left : TRUE ELSE clipFiles[i]]
  /\ log' = Append(log, Event("segment", idx, code))
  /\ idx' = idx + 1
  /\ UNCHANGED <<pc, outcome, err>>

\* The tool exits non-zero in _create_segment_video: the exception is logged
\* and re-raised, through _create_concat_file and generate_video.  left is
\* what the tool left at the output path: no file, or one partly written clip.
SegmentFailure(code, stderr, left) ==
  /\ clipFiles' = [i \in DOMAIN clipFiles \cup {idx : c \in left} |->
                     IF i = idx THEN CHOOSE c \in left : TRUE ELSE clipFiles[i]]
  /\ log' = Append(log, Event("segment", idx, code))
  /\ idx' = idx
  /\ pc' = "idle"
  /\ outcome' = "raised"
  /\ err' = SegmentToolError(code, stderr)

\* One loop iteration whose tool invocation exits non-zero.
ConcatRenderFail ==
  /\ pc = "concat"
  /\ idx < Len(segments)
  /\ idx \notin DOMAIN clipFiles
  /\ segment_videos' = Append(segment_videos, SegVideo(idx))
  /\ \E stderr \in StderrTexts :
       \E left \in {{}} \cup {{c} : c \in PartialClips(segments[idx + 1])} :
         SegmentFailure(1, stderr, left)
  /\ UNCHANGED <<characters, avatarFiles, manifest, outputFile, script, audio,
                 avatars, segments, runs, removed>>

\* A planted fault: only the rendered clips are listed, not the skipped ones.
ConcatLines_rendered(videos) ==
  LET kept == SelectSeq(videos, LAMBDA v :
                \E k \in DOMAIN log : log[k].ev = "segment" /\ SegVideo(log[k].seg) = v)
  IN [k \in DOMAIN kept |-> ManifestLine(kept[k])]

\* The lines written to the concat file, one per listed clip, in list order.
ConcatLines(videos) == [k \in DOMAIN videos |-> ManifestLine(videos[k])]

\* A planted fault: the concat file is written from inside the loop, before
\* every clip has been rendered.
WriteConcatFile_early ==
  /\ pc = "concat"
  /\ idx <= Len(segments)
  /\ manifest' = [exists |-> TRUE, lines |-> ConcatLines(segment_videos)]
  /\ log' = Append(log, Event("manifest", -1, 0))
  /\ pc' = "render"
  /\ UNCHANGED <<characters, avatarFiles, clipFiles, outputFile, script, audio,
                 avatars, segments, idx, segment_videos, outcome, err, runs,
                 removed>>

\* _create_concat_file after its loop: the concat file is written.
WriteConcatFile ==
  /\ pc = "concat"
  /\ idx = Len(segments)
  /\ manifest' = [exists |-> TRUE, lines |-> ConcatLines(segment_videos)]
  /\ log' = Append(log, Event("manifest", -1, 0))
  /\ pc' = "render"
  /\ UNCHANGED <<characters, avatarFiles, clipFiles, outputFile, script, audio,
                 avatars, segments, idx, segment_videos, outcome, err, runs,
                 removed>>

\* The clip index a manifest line names.
ClipIndexOf(line) ==
  CHOOSE i \in 0..MaxLines : ManifestLine(SegVideo(i)) = line

\* The total duration of the clips a manifest lists, in its first n lines.
RECURSIVE ConcatDuration(_, _, _)
ConcatDuration(lines, files, n) ==
  IF n = 0 THEN 0
  ELSE ConcatDuration(lines, files, n - 1) + files[ClipIndexOf(lines[n])].duration

\* The video the tool writes with -shortest: as long as the shorter of the
\* concatenated clips and the audio track.
MuxedVideo(lines, files, audio_sec) ==
  [exists |-> TRUE,
   duration |-> Min(ConcatDuration(lines, files, Len(lines)), audio_sec),
   complete |-> TRUE]

\* Whether the tool can read every clip a manifest lists: a truncated clip
\* with no playable frame cannot be opened.
ClipsReadable(lines, files) ==
  \A k \in DOMAIN lines : files[ClipIndexOf(lines[k])].complete

\* _render_video whose tool invocation exits with code 0; generate_video
\* returns output_path.
RenderVideoOk ==
  /\ pc = "render"
  /\ ClipsReadable(manifest.lines, clipFiles)
  /\ outputFile' = MuxedVideo(manifest.lines, clipFiles, audio)
  /\ log' = log \o <<Event("mux", -1, 0), Event("return", -1, 0)>>
  /\ outcome' = "returned"
  /\ pc' = "idle"
  /\ UNCHANGED <<characters, avatarFiles, clipFiles, manifest, script, audio,
                 avatars, segments, idx, segment_videos, err, runs, removed>>

\* _render_video whose tool invocation exits non-zero: RuntimeError; the
\* output path is left as it was or holds a partly written video.
RenderVideoFail ==
  /\ pc = "render"
  /\ \E stderr \in StderrTexts :
       err' = RenderToolError(1, stderr)
  /\ \E left \in {outputFile, [exists |-> TRUE, duration |-> 0, complete |-> FALSE]} :
       outputFile' = left
  /\ log' = Append(log, Event("mux", -1, 1))
  /\ outcome' = "raised"
  /\ pc' = "idle"
  /\ UNCHANGED <<characters, avatarFiles, clipFiles, manifest, script, audio,
                 avatars, segments, idx, segment_videos, runs, removed>>

\* A planted fault: only the clips of the last timeline are unlinked.
SegmentFilesToRemove_current(files) ==
  {i \in DOMAIN files : GlobSegment(SegVideo(i)) /\ i < Len(segments)}

\* for seg_file in self.work_dir.glob("segment_*.mp4")
SegmentFilesToRemove(files) == {i \in DOMAIN files : GlobSegment(SegVideo(i))}

\* The working directory after cleanup_temp_files, and what it unlinked: the
\* globbed clip files, and the concat file if it exists.
CleanupResult(files, concat, output, avatarSet) ==
  LET gone == SegmentFilesToRemove(files)
  IN [clipFiles |-> [i \in DOMAIN files \ gone |-> files[i]],
      manifest |-> NoManifest,
      outputFile |-> output,
      avatarFiles |-> avatarSet,
      removed |-> {SegVideo(i) : i \in gone}
                    \cup (IF concat.exists THEN {ConcatPath} ELSE {})]

\* cleanup_temp_files, between calls of generate_video
CleanupTempFiles ==
  /\ pc = "idle"
  /\ LET c == CleanupResult(clipFiles, manifest, outputFile, avatarFiles)
     IN /\ clipFiles' = c.clipFiles
        /\ manifest' = c.manifest
        /\ outputFile' = c.outputFile
        /\ avatarFiles' = c.avatarFiles
        /\ removed' = c.removed
  /\ UNCHANGED <<characters, pc, script, audio, avatars, segments, idx,
                 segment_videos, log, outcome, err, runs>>

Next ==
  \/ \E s \in RunScripts, a \in AudioDurations : GenerateVideo(s, a)
  \/ ConcatSkip
  \/ ConcatRenderOk
  \/ ConcatRenderFail
  \/ WriteConcatFile
  \/ RenderVideoOk
  \/ RenderVideoFail
  \/ CleanupTempFiles

Spec == Init /\ [][Next]_vars

\* ------------------------------------------------------------ properties
\* sum(segs[j].duration for j < i), over 1-based positions 1..n
RECURSIVE SumDurations(_, _)
SumDurations(segs, n) ==
  IF n = 0 THEN 0 ELSE SumDurations(segs, n - 1) + segs[n].duration

\* The timeline builder has returned a timeline for a non-empty mapping.
TimelineBuilt == outcome = "returned" /\ Len(avatars) > 0

\* C1: in a timeline returned for a non-empty avatars mapping the first
\* segment starts at 0 and every segment starts at the sum of the durations
\* of the segments before it (no gaps, no overlaps).
C1_CumulativeStarts ==
  TimelineBuilt =>
    /\ Len(segments) > 0 => segments[1].start = 0
    /\ \A i \in DOMAIN segments :
         segments[i].start = SumDurations(segments, i - 1)

\* C1 witness: a two-segment timeline whose second segment starts later.
C1_Witness ==
  /\ TimelineBuilt
  /\ Len(segments) = 2
  /\ segments[1].duration = 2
  /\ segments[2].start = 2

\* C2: the returned timeline has one segment per script line, in script
\* order, each carrying its line's speaker and text; nothing is reordered,
\* dropped or merged.
C2_OneSegmentPerLine ==
  outcome = "returned" =>
    /\ Len(segments) = Len(script)
    /\ \A i \in DOMAIN script :
         /\ segments[i].speaker = script[i].speaker
         /\ segments[i].text = script[i].text

\* C2 witness: two adjacent lines of one speaker with different texts, both kept.
C2_Witness ==
  /\ outcome = "returned"
  /\ Len(script) = 2
  /\ script[1].speaker = script[2].speaker
  /\ script[1].text # script[2].text
  /\ Len(segments) = 2

\* The avatar the fallback chain names for a speaker.
ChainAvatar(speaker) ==
  IF \E k \in DOMAIN avatars : avatars[k].speaker = speaker
  THEN avatars[CHOOSE k \in DOMAIN avatars : avatars[k].speaker = speaker].path
  ELSE IF \E k \in DOMAIN avatars : avatars[k].speaker = "chatgpt"
  THEN avatars[CHOOSE k \in DOMAIN avatars : avatars[k].speaker = "chatgpt"].path
  ELSE avatars[1].path

\* C3: with a non-empty avatars mapping the builder does not fail, and each
\* segment's avatar is the entry of its speaker, else the entry of "chatgpt",
\* else the first-inserted entry.
C3_AvatarFallbackChain ==
  (pc = "timeline" /\ outcome # "running" /\ Len(avatars) > 0) =>
    /\ outcome = "returned"
    /\ \A i \in DOMAIN segments :
         segments[i].avatar = ChainAvatar(script[i].speaker)

\* C3 witness: a speaker with no entry and no "chatgpt" entry, in a mapping
\* of two entries, gets the first-inserted one.
C3_Witness ==
  /\ outcome = "returned"
  /\ Len(avatars) = 2
  /\ \E i \in DOMAIN segments :
       /\ script[i].speaker = "chatgpt"
       /\ \A k \in DOMAIN avatars : avatars[k].speaker # "chatgpt"
       /\ segments[i].avatar = avatars[1].path
       /\ segments[i].avatar # avatars[2].path

\* C4: called with a non-empty script and an empty avatars mapping the
\* builder fails with NoAvatarsAvailableError, and it fails with that error
\* only if the mapping is empty.
C4_NoAvatarsAvailableError ==
  (pc = "timeline" /\ outcome # "running") =>
    /\ (Len(avatars) = 0 /\ Len(script) > 0) =>
         (outcome = "raised" /\ err.kind = "NoAvatarsAvailableError")
    /\ (outcome = "raised" /\ err.kind = "NoAvatarsAvailableError") =>
         Len(avatars) = 0

\* What the code does in the case of C4: the builder fails exactly when the
\* script is non-empty and the mapping empty, with the IndexError of
\* list(avatars.values())[0].
BuilderFailsIffNoAvatars ==
  (pc = "timeline" /\ outcome # "running") =>
    /\ outcome = "raised" <=> (Len(avatars) = 0 /\ Len(script) > 0)
    /\ outcome = "raised" => err.kind = "IndexError"

\* C5: a line whose duration (estimated_duration_sec + pause_after_sec) is
\* not positive makes the builder fail, so every segment of a returned
\* timeline has a positive duration.
C5_PositiveDurations ==
  (pc = "timeline" /\ outcome # "running" /\ Len(avatars) > 0) =>
    /\ (\E i \in DOMAIN script : LineDuration(script[i]) <= 0) => outcome = "raised"
    /\ \A i \in DOMAIN segments : segments[i].duration > 0

\* The last entry of the current call's log is a tool invocation that failed.
ToolFailed(ev) ==
  /\ Len(log) > 0
  /\ log[Len(log)].ev = ev
  /\ log[Len(log)].exit # 0

\* C6: once the tool has exited non-zero for segment k, the call has ended
\* with an exception and has done nothing after it: no later segment is
\* rendered or skipped, no manifest written, no mux invoked, no path returned.
C6_AbortOnSegmentFailure ==
  \A p \in DOMAIN log :
    (log[p].ev = "segment" /\ log[p].exit # 0) =>
      /\ p = Len(log)
      /\ outcome = "raised"
      /\ pc = "idle"

\* C6 witness: the tool failed on the first of two segments.
C6_Witness ==
  /\ ToolFailed("segment")
  /\ log[Len(log)].seg = 0
  /\ Len(segments) = 2
  /\ outcome = "raised"

\* Whether a message, a sequence of formatted parts, contains a text.
Contains(message, text) == \E k \in DOMAIN message : message[k] = text

\* C7: an exception raised for a non-zero tool exit is of one kind, that of
\* the final concatenate/mux step, and its message contains the tool's
\* standard-error text, in the segment renderer as in the mux step.
C7_UniformRenderError ==
  (outcome = "raised" /\ (ToolFailed("segment") \/ ToolFailed("mux"))) =>
    /\ err.kind = RenderToolError(1, err.stderr).kind
    /\ Contains(err.message, err.stderr)

\* The manifest line of clip i, for i < 10, written out.
ExpectedManifestLine(i) ==
  [directive |-> "file",
   path |-> <<"/cwd", "work", "segment_", <<0, 0, 0, i>>, ".mp4">>]

\* C8: a manifest written for a timeline of n segments has exactly n lines,
\* line i naming the absolute path of the clip file segment_<000i>.mp4 of
\* the working directory, which exists, whether rendered or skipped.
C8_ManifestInSegmentOrder ==
  pc = "render" =>
    /\ manifest.exists
    /\ Len(manifest.lines) = Len(segments)
    /\ \A i \in 0..(Len(segments) - 1) :
         /\ manifest.lines[i + 1] = ExpectedManifestLine(i)
         /\ i \in DOMAIN clipFiles

\* C8 witness: a two-line manifest whose first clip was skipped as existing
\* and whose second was rendered.
C8_Witness ==
  /\ pc = "render"
  /\ Len(manifest.lines) = 2
  /\ \E p, q \in DOMAIN log :
       /\ log[p].ev = "skip" /\ log[p].seg = 0
       /\ log[q].ev = "segment" /\ log[q].seg = 1

\* C9: the video of a successful call is no longer than the shorter of the
\* accumulated segment duration of the call's timeline and the audio track.
C9_OutputDurationBound ==
  outcome = "returned" =>
    /\ outputFile.exists
    /\ outputFile.duration <=
         Min(SumDurations(segments, Len(segments)), audio)

\* A step of cleanup_temp_files: from idle to idle without a new call.
IsCleanupStep == pc = "idle" /\ pc' = "idle" /\ runs' = runs

\* C10: cleanup_temp_files, called after a successful or an aborted call,
\* leaves no segment clip file and no manifest, leaves the avatar images and
\* the final output as they were and raises nothing; called on a directory
\* it has just cleaned, it changes nothing and unlinks nothing.
C10_CleanupRemovesTransients ==
  [][IsCleanupStep =>
       /\ DOMAIN clipFiles' = {}
       /\ ~manifest'.exists
       /\ avatarFiles' = avatarFiles
       /\ outputFile' = outputFile
       /\ outcome' = outcome /\ err' = err
       /\ removed' = {SegVideo(i) : i \in DOMAIN clipFiles}
                       \cup (IF manifest.exists THEN {ConcatPath} ELSE {})
       /\ (DOMAIN clipFiles = {} /\ ~manifest.exists) =>
            /\ removed' = {}
            /\ clipFiles' = clipFiles /\ manifest' = manifest]_vars

\* C10 witness: after a successful call, cleanup has unlinked two clips and
\* the manifest; the avatar images and the output are still there.
C10_Witness ==
  /\ pc = "idle"
  /\ outcome = "returned"
  /\ Cardinality(removed) = 3
  /\ DOMAIN clipFiles = {}
  /\ ~manifest.exists
  /\ outputFile.exists
  /\ avatarFiles # {}

\* The entries of the current call's log that are tool invocations for
\* segment i, and those that are skips of it.
ToolCalls(l, i) == {p \in DOMAIN l : l[p].ev = "segment" /\ l[p].seg = i}
Skips(l, i) == {p \in DOMAIN l : l[p].ev = "skip" /\ l[p].seg = i}

\* A step of the loop of _create_concat_file, for segment idx.
IsConcatStep == pc = "concat" /\ idx < Len(segments)

\* C11: when the loop reaches a segment whose clip file exists, the tool is
\* not invoked for it, the file is left as it is and its path is listed for
\* the manifest; when the file does not exist, the tool is invoked exactly
\* once for that segment.
C11_SkipExistingClip ==
  [][IsConcatStep =>
       /\ segment_videos' = Append(segment_videos, SegVideo(idx))
       /\ IF idx \in DOMAIN clipFiles
          THEN /\ clipFiles' = clipFiles
               /\ ToolCalls(log', idx) = {}
               /\ Cardinality(Skips(log', idx)) = 1
          ELSE /\ Cardinality(ToolCalls(log', idx)) = 1
               /\ Skips(log', idx) = {}]_vars

\* C11 witness: the clip of segment 0 was found existing, with another
\* content than the segment's, and was kept and listed; the clip of segment 1
\* did not exist and was rendered by one invocation.
C11_Witness ==
  /\ pc = "render"
  /\ Len(segments) = 2
  /\ Cardinality(Skips(log, 0)) = 1
  /\ Cardinality(ToolCalls(log, 1)) = 1
  /\ clipFiles[0] # RenderedClip(segments[1])
  /\ clipFiles[1] = RenderedClip(segments[2])
  /\ manifest.lines[1] = ManifestLine(SegVideo(0))

\* The log of a call that runs to its end on a timeline of n segments:
\* which event stands at position k.
ExpectedEvent(k, n) ==
  IF k = 1 THEN {"avatars"}
  ELSE IF k = 2 THEN {"timeline"}
  ELSE IF k <= n + 2 THEN {"segment", "skip"}
  ELSE IF k = n + 3 THEN {"manifest"}
  ELSE IF k = n + 4 THEN {"mux"}
  ELSE IF k = n + 5 THEN {"return"}
  ELSE {}

\* C12: in every call the steps happen in this order: avatars generated,
\* timeline built, the segments rendered or found existing in increasing
\* index order, the manifest written after all of them, the mux tool invoked
\* once after the manifest, and the path returned only after the mux tool
\* exited with code 0; a step that failed is the last one.
C12_StepOrder ==
  LET n == Len(segments)
  IN /\ outcome \in {"running", "returned", "raised"} => Len(log) >= 1
     /\ \A k \in DOMAIN log :
          /\ log[k].ev \in ExpectedEvent(k, n)
          /\ log[k].ev \in {"segment", "skip"} => log[k].seg = k - 3
          /\ log[k].exit # 0 => k = Len(log)
     /\ pc = "concat" => (Len(log) = idx + 2 /\ idx <= n)
     /\ pc = "render" => (Len(log) = n + 3 /\ idx = n)
     /\ outcome = "returned" =>
          (Len(log) = n + 5 /\ log[n + 4].ev = "mux" /\ log[n + 4].exit = 0)

\* C12 witness: a call on two segments has returned after all seven steps.
C12_Witness ==
  /\ outcome = "returned"
  /\ Len(segments) = 2
  /\ Len(log) = 7
  /\ log[3].seg = 0 /\ log[4].seg = 1
  /\ log[5].ev = "manifest"
  /\ log[7].ev = "return"

\* C13: when a call has returned, every clip its manifest lists at position
\* i is the clip a successful tool invocation writes for segment i of the
\* call's own timeline: that segment's avatar image, duration and upper-cased
\* speaker label, never a clip of an earlier script or of a failed invocation.
C13_ClipsOfCurrentTimeline ==
  (outcome = "returned" /\ manifest.exists) =>
    \A i \in 0..(Len(segments) - 1) :
      /\ manifest.lines[i + 1] = ManifestLine(SegVideo(i))
      /\ i \in DOMAIN clipFiles
      /\ clipFiles[i] = RenderedClip(segments[i + 1])
====
